---- MODULE Spec2Model ----
(***************************************************************************)
(* Model of pongxelflut (src/src/main.rs, src/src/input.rs): the shared    *)
(* GameState, its physics tick update(), the key handler handle_press(),   *)
(* and the four threads of main() that share it through one RwLock.        *)
(*                                                                         *)
(* Angles.  ball_angle is an f32 in radians.  Every angle the program can  *)
(* produce is 0, PI, MAX_REFLECT_ANGLE * n / (paddle_height / 2) (minus PI *)
(* for paddle 2), or 2 PI minus one of these.  For playfields whose        *)
(* paddle_height / 2 is 1 or 2 all of them are whole multiples of PI / 8,  *)
(* so the model stores ball_angle as an integer count of PI / 8 and reads  *)
(* (cos * BALL_SPEED) as i16 and (sin * BALL_SPEED) as i16 from tables.    *)
(***************************************************************************)
EXTENDS Integers, Sequences, FiniteSets, TLC

\* ------------------------------------------------------------------ bounds
\* Largest accumulated time (ms) the simulation driver is followed to.
MaxDelta == 66
\* Largest number of physics ticks the simulation driver thread is followed for.
MaxTicks == 1

\* --------------------------------------------------------------- constants
PADDLE_WIDTH == 47
PADDLE_SPEED == 17
BALL_SPEED == 30
\* std::f32::consts::PI, in units of PI / 8
PI == 8
\* FRAC_PI_4
MAX_REFLECT_ANGLE == PI \div 4
\* Duration::from_millis(1000 / 30), in ms
FRAME_TIME == 1000 \div 30

\* PADDLE_HEIGHT_FRACTION = 1/7 and PADDLE_GAP_FRACTION = 1/9 as the divisors
\* of (FRACTION * v as f32).floor() as i16
PADDLE_HEIGHT_DIV == 7
PADDLE_GAP_DIV == 9

\* ------------------------------------------------------------- input.rs
\* mod codes
CodeW == 17
CodeS == 31
CodeUP == 103
CodeDOWN == 108
CodeSPACE == 57
\* a key code outside mod codes (KEY_A)
CodeOther == 30

Codes == {CodeW, CodeS, CodeUP, CodeDOWN, CodeSPACE, CodeOther}
KeyStates == {"Pressed", "Released"}

\* a try_from that takes every other code for the start key
TryFromAnyKey(value) ==
  CASE value = CodeW -> "W"
    [] value = CodeS -> "S"
    [] value = CodeUP -> "Up"
    [] value = CodeDOWN -> "Down"
    [] OTHER -> "Space"

\* impl TryFrom<u32> for Key: "Err" stands for Err(())
TryFrom(value) ==
  CASE value = CodeW -> "W"
    [] value = CodeS -> "S"
    [] value = CodeSPACE -> "Space"
    [] value = CodeUP -> "Up"
    [] value = CodeDOWN -> "Down"
    [] OTHER -> "Err"

\* ------------------------------------------------------------- PlayerDir
PlayerDir == {"Up", "Down", "Neutral", "Both"}

press_up(self) ==
  IF self \in {"Up", "Neutral"} THEN "Up" ELSE "Both"

press_down(self) ==
  IF self \in {"Down", "Neutral"} THEN "Down" ELSE "Both"

\* release_up that forgets the still-held key
release_up_collapse(self) ==
  IF self \in {"Up", "Neutral", "Both"} THEN "Neutral" ELSE "Down"

release_up(self) ==
  IF self \in {"Up", "Neutral"} THEN "Neutral" ELSE "Down"

release_down(self) ==
  IF self \in {"Down", "Neutral"} THEN "Neutral" ELSE "Up"

\* ------------------------------------------------------------ arithmetic
\* i16::clamp(self, min, max)
Clamp(v, lo, hi) == IF v < lo THEN lo ELSE IF v > hi THEN hi ELSE v

\* (angle.cos() * BALL_SPEED) as i16 for angle = k * PI / 8, k = 0..15, with
\* BALL_SPEED = 30.0
CosTable == <<30, 27, 21, 11, 0, -11, -21, -27, -30, -27, -21, -11, 0, 11, 21, 27>>
\* (angle.sin() * BALL_SPEED) as i16 for angle = k * PI / 8
SinTable == <<0, 11, 21, 27, 30, 27, 21, 11, 0, -11, -21, -27, -30, -27, -21, -11>>

CosSpeed(angle) == CosTable[(angle % (2 * PI)) + 1]
SinSpeed(angle) == SinTable[(angle % (2 * PI)) + 1]

\* ------------------------------------------------------------- GameState
\* GameState::new(size)
GameNew(size) ==
  LET paddle_height == size[2] \div PADDLE_HEIGHT_DIV
      paddle_y == (size[2] - paddle_height) \div 2
  IN [ size |-> size,
       ball |-> <<size[1] \div 2, size[2] \div 2>>,
       ball_angle |-> 0,
       player1 |-> <<size[1] \div PADDLE_GAP_DIV, paddle_y>>,
       player2 |-> <<size[1] - (size[1] \div PADDLE_GAP_DIV) - PADDLE_WIDTH, paddle_y>>,
       ball_is_moving |-> FALSE,
       player1_dir |-> "Neutral",
       player2_dir |-> "Neutral",
       paddle_height |-> paddle_height ]

\* a match in which Both moves the paddle like Down
PaddleStepBothDown(dir) ==
  CASE dir = "Up" -> -PADDLE_SPEED
    [] dir \in {"Down", "Both"} -> PADDLE_SPEED
    [] OTHER -> 0

\* the match on player*_dir in update()
PaddleStep(dir) ==
  CASE dir = "Up" -> -PADDLE_SPEED
    [] dir = "Down" -> PADDLE_SPEED
    [] OTHER -> 0

\* a paddle movement that uses its intent up
MovePaddlesConsume(g) ==
  [g EXCEPT !.player1 = <<@[1], @[2] + PaddleStep(g.player1_dir)>>,
            !.player2 = <<@[1], @[2] + PaddleStep(g.player2_dir)>>,
            !.player1_dir = "Neutral",
            !.player2_dir = "Neutral"]

\* update(), lines 134-144: both paddles move by their intent
MovePaddles(g) ==
  [g EXCEPT !.player1 = <<@[1], @[2] + PaddleStep(g.player1_dir)>>,
            !.player2 = <<@[1], @[2] + PaddleStep(g.player2_dir)>>]

\* the clamp without the paddle's own height
ClampPaddlesToField(g) ==
  [g EXCEPT !.player1 = <<@[1], Clamp(@[2], 0, g.size[2])>>,
            !.player2 = <<@[1], Clamp(@[2], 0, g.size[2])>>]

\* update(), lines 146-147
ClampPaddles(g) ==
  [g EXCEPT !.player1 = <<@[1], Clamp(@[2], 0, g.size[2] - g.paddle_height)>>,
            !.player2 = <<@[1], Clamp(@[2], 0, g.size[2] - g.paddle_height)>>]

\* the translation without the ball_is_moving test
MoveBallAlways(g) ==
  [g EXCEPT !.ball = <<@[1] + CosSpeed(g.ball_angle),
                       @[2] + SinSpeed(g.ball_angle)>>]

\* update(), lines 149-154
MoveBall(g) ==
  IF g.ball_is_moving
    THEN [g EXCEPT !.ball = <<@[1] + CosSpeed(g.ball_angle),
                              @[2] + SinSpeed(g.ball_angle)>>]
    ELSE g

\* the wall bounce without the clamp of ball.y
WallBounceNoClamp(g) ==
  IF g.ball[2] < 0 \/ g.ball[2] > g.size[2]
    THEN [g EXCEPT !.ball_angle = (PI * 2) - @]
    ELSE g

\* update(), lines 156-159
WallBounce(g) ==
  IF g.ball[2] < 0 \/ g.ball[2] > g.size[2]
    THEN [g EXCEPT !.ball_angle = (PI * 2) - @,
                   !.ball = <<@[1], Clamp(@[2], 0, g.size[2])>>]
    ELSE g

\* a collision test that covers only the first columns of the paddle
InPaddleFace(g, p) ==
  /\ g.ball[1] > p[1]
  /\ g.ball[1] < p[1] + (PADDLE_WIDTH \div 8)
  /\ g.ball[2] > p[2]
  /\ g.ball[2] < p[2] + g.paddle_height

\* the collision test of update() against the paddle whose corner is p
InPaddle(g, p) ==
  /\ g.ball[1] > p[1]
  /\ g.ball[1] < p[1] + PADDLE_WIDTH
  /\ g.ball[2] > p[2]
  /\ g.ball[2] < p[2] + g.paddle_height

\* a reflection that spreads over twice MAX_REFLECT_ANGLE
ReflectAngleWide(g, n) == (2 * MAX_REFLECT_ANGLE * n) \div (g.paddle_height \div 2)

\* MAX_REFLECT_ANGLE * (n as f32 / (paddle_height / 2) as f32)
ReflectAngle(g, n) == (MAX_REFLECT_ANGLE * n) \div (g.paddle_height \div 2)

\* the offset of player 1 measured from the paddle's top, not its centre
Collide1FromTop(g) ==
  IF InPaddle(g, g.player1) /\ CosSpeed(g.ball_angle) < 0
    THEN [g EXCEPT !.ball_angle = ReflectAngle(g, g.ball[2] - g.player1[2])]
    ELSE g

\* update(), lines 161-173
Collide1(g) ==
  IF InPaddle(g, g.player1) /\ CosSpeed(g.ball_angle) < 0
    THEN [g EXCEPT !.ball_angle =
            ReflectAngle(g, -((g.paddle_height \div 2) - (g.ball[2] - g.player1[2])))]
    ELSE g

\* update(), lines 175-188
Collide2(g) ==
  IF InPaddle(g, g.player2) /\ CosSpeed(g.ball_angle) > 0
    THEN [g EXCEPT !.ball_angle =
            ReflectAngle(g, (g.paddle_height \div 2) - (g.ball[2] - g.player2[2])) - PI]
    ELSE g

\* the score test without the branch for player 2
ScoreRightOnly(g) ==
  IF g.ball[1] > g.size[1]
    THEN [g EXCEPT !.ball_is_moving = FALSE,
                   !.ball = <<(g.size[1] \div 2) + (g.size[1] \div 3), g.size[2] \div 2>>,
                   !.ball_angle = PI]
    ELSE g

\* the two score branches with their resets exchanged
ScoreSwapped(g) ==
  IF g.ball[1] > g.size[1]
    THEN [g EXCEPT !.ball_is_moving = FALSE,
                   !.ball = <<(g.size[1] \div 2) - (g.size[1] \div 3), g.size[2] \div 2>>,
                   !.ball_angle = 0]
    ELSE IF g.ball[1] < 0
      THEN [g EXCEPT !.ball_is_moving = FALSE,
                     !.ball = <<(g.size[1] \div 2) + (g.size[1] \div 3), g.size[2] \div 2>>,
                     !.ball_angle = PI]
      ELSE g

\* update(), lines 190-201
Score(g) ==
  IF g.ball[1] > g.size[1]
    THEN [g EXCEPT !.ball_is_moving = FALSE,
                   !.ball = <<(g.size[1] \div 2) + (g.size[1] \div 3), g.size[2] \div 2>>,
                   !.ball_angle = PI]
    ELSE IF g.ball[1] < 0
      THEN [g EXCEPT !.ball_is_moving = FALSE,
                     !.ball = <<(g.size[1] \div 2) - (g.size[1] \div 3), g.size[2] \div 2>>,
                     !.ball_angle = 0]
      ELSE g

\* the statements of update() in program order
NumUpdateSteps == 7
UpdateStep(i, g) ==
  CASE i = 1 -> MovePaddles(g)
    [] i = 2 -> ClampPaddles(g)
    [] i = 3 -> MoveBall(g)
    [] i = 4 -> WallBounce(g)
    [] i = 5 -> Collide1(g)
    [] i = 6 -> Collide2(g)
    [] i = 7 -> Score(g)

\* GameState::update(&mut self)
Update(g) ==
  Score(Collide2(Collide1(WallBounce(MoveBall(ClampPaddles(MovePaddles(g)))))))

\* handle_press with the arrow keys routed to player 1
HandlePressOnePlayer(g, key, state) ==
  LET g1 ==
        CASE key \in {"W", "Up"} /\ state = "Pressed" -> [g EXCEPT !.player1_dir = press_up(@)]
          [] key \in {"S", "Down"} /\ state = "Pressed" -> [g EXCEPT !.player1_dir = press_down(@)]
          [] key \in {"W", "Up"} /\ state = "Released" -> [g EXCEPT !.player1_dir = release_up(@)]
          [] key \in {"S", "Down"} /\ state = "Released" -> [g EXCEPT !.player1_dir = release_down(@)]
          [] OTHER -> g
  IN IF state = "Pressed" THEN [g1 EXCEPT !.ball_is_moving = TRUE] ELSE g1

\* handle_press that starts the ball on a release too
HandlePressAnyState(g, key, state) ==
  LET g1 ==
        CASE key = "W" /\ state = "Pressed" -> [g EXCEPT !.player1_dir = press_up(@)]
          [] key = "S" /\ state = "Pressed" -> [g EXCEPT !.player1_dir = press_down(@)]
          [] key = "W" /\ state = "Released" -> [g EXCEPT !.player1_dir = release_up(@)]
          [] key = "S" /\ state = "Released" -> [g EXCEPT !.player1_dir = release_down(@)]
          [] key = "Up" /\ state = "Pressed" -> [g EXCEPT !.player2_dir = press_up(@)]
          [] key = "Down" /\ state = "Pressed" -> [g EXCEPT !.player2_dir = press_down(@)]
          [] key = "Up" /\ state = "Released" -> [g EXCEPT !.player2_dir = release_up(@)]
          [] key = "Down" /\ state = "Released" -> [g EXCEPT !.player2_dir = release_down(@)]
          [] OTHER -> g
  IN [g1 EXCEPT !.ball_is_moving = TRUE]

\* GameState::handle_press(&mut self, key, state)
HandlePress(g, key, state) ==
  LET g1 ==
        CASE key = "W" /\ state = "Pressed" -> [g EXCEPT !.player1_dir = press_up(@)]
          [] key = "S" /\ state = "Pressed" -> [g EXCEPT !.player1_dir = press_down(@)]
          [] key = "W" /\ state = "Released" -> [g EXCEPT !.player1_dir = release_up(@)]
          [] key = "S" /\ state = "Released" -> [g EXCEPT !.player1_dir = release_down(@)]
          [] key = "Up" /\ state = "Pressed" -> [g EXCEPT !.player2_dir = press_up(@)]
          [] key = "Down" /\ state = "Pressed" -> [g EXCEPT !.player2_dir = press_down(@)]
          [] key = "Up" /\ state = "Released" -> [g EXCEPT !.player2_dir = release_up(@)]
          [] key = "Down" /\ state = "Released" -> [g EXCEPT !.player2_dir = release_down(@)]
          [] OTHER -> g
  IN IF state = "Pressed" THEN [g1 EXCEPT !.ball_is_moving = TRUE] ELSE g1


\* ------------------------------------------------------------ the world
\* the canvas sizes read_screen_size() reports in this model (main, line 316)
Sizes == {<<180, 36>>}

\* wall-clock time (ms) between two readings of Instant::now() in main's loop
Elapsed == {0, FRAME_TIME, 2 * FRAME_TIME}

Threads == {"main", "ball", "players", "input"}
DirKeys == {"W", "S", "Up", "Down"}
EventSet == [code : Codes, state : KeyStates]
NoEvent == <<>>
NoPos == <<>>

VARIABLES
  game,         \* the GameState behind Arc<RwLock<..>>
  lock,         \* the RwLock: its writer (or "none") and its readers
  pc,           \* where each thread is
  ustep,        \* the statement of update() the driver executes next (0: none)
  delta,        \* main's accumulator, ms
  ticks,        \* calls of update() main has completed
  total,        \* history: the wall-clock time (ms) main has measured so far
  event,        \* handle_user_input's current keyboard event
  ball_pos,     \* draw_ball's local copy of game.ball
  player1_pos,  \* draw_players' local copy of game.player1
  player2_pos,  \* draw_players' local copy of game.player2
  held          \* history: direction keys whose last handled event was a press

vars == <<game, lock, pc, ustep, delta, ticks, total, event, ball_pos,
          player1_pos, player2_pos, held>>

\* a read() that does not wait for the writer
CanReadAlways(l) == TRUE

\* RwLock::read() returns only while no writer holds the lock
CanRead(l) == l.writer = "none"
\* RwLock::write() returns only while nobody holds the lock
CanWrite(l) == l.writer = "none" /\ l.readers = {}

AcquireRead(l, t) == [l EXCEPT !.readers = @ \cup {t}]
\* a read guard that is never dropped
ReleaseReadNever(l, t) == l

\* drop of a read guard
ReleaseRead(l, t) == [l EXCEPT !.readers = @ \ {t}]
AcquireWrite(l, t) == [l EXCEPT !.writer = t]
\* drop of the write guard at the end of the statement
ReleaseWrite(l, t) == [l EXCEPT !.writer = "none"]

\* an Err that propagates out of main and ends the process
OnErrorExit(p, t) == [u \in Threads |-> "dead"]

\* what `loop { let _ = f(..); }` does with an Err: call f again
OnError(p, t) == [p EXCEPT ![t] = "err"]

HeldAfter(h, key, state) ==
  IF key \in DirKeys
    THEN IF state = "Pressed" THEN h \cup {key} ELSE h \ {key}
    ELSE h

\* the state main has built when it enters its loop, for a canvas size of
\* the set sizes
InitOf(sizes) ==
  /\ \E size \in sizes : game = GameNew(size)
  /\ lock = [writer |-> "none", readers |-> {}]
  /\ pc = [t \in Threads |->
             CASE t = "main" -> "loop"
               [] t = "input" -> "new"
               [] OTHER -> "connect"]
  /\ ustep = 0
  /\ delta = 0
  /\ ticks = 0
  /\ total = 0
  /\ event = NoEvent
  /\ ball_pos = NoPos
  /\ player1_pos = NoPos
  /\ player2_pos = NoPos
  /\ held = {}

Init == InitOf(Sizes)

\* the canvas sizes of the runs that follow update() and handle_press() alone:
\* paddle heights 5, 3 and 1, and a canvas so narrow that the x-ranges of the
\* two paddles overlap
GameSizes == Sizes \cup {<<180, 22>>, <<180, 13>>, <<90, 36>>}

InitGame == InitOf(GameSizes)

\* ------------------------------------------------- whole calls (SpecGame)
\* handle_user_input, lines 301-306: what one keyboard event does to the world
HandleEvent(g, ev) ==
  LET key == TryFrom(ev.code)
  IN IF key # "Err" THEN HandlePress(g, key, ev.state) ELSE g

\* one call of update() with the lock held throughout
Tick ==
  /\ game' = Update(game)
  /\ UNCHANGED <<lock, pc, ustep, delta, ticks, total, event, ball_pos,
                 player1_pos, player2_pos, held>>

\* one keyboard event through handle_user_input's loop body, lines 301-306
KeyEvent ==
  \E ev \in EventSet :
    LET key == TryFrom(ev.code)
    IN /\ game' = HandleEvent(game, ev)
       /\ held' = IF key # "Err" THEN HeldAfter(held, key, ev.state) ELSE held
       /\ UNCHANGED <<lock, pc, ustep, delta, ticks, total, event, ball_pos,
                      player1_pos, player2_pos>>

NextGame == Tick \/ KeyEvent

SpecGame == InitGame /\ [][NextGame]_vars

\* Tick, with the statements of update() evaluated one after the other
TickStaged ==
  \E g1 \in {UpdateStep(1, game)} : \E g2 \in {UpdateStep(2, g1)} :
  \E g3 \in {UpdateStep(3, g2)} : \E g4 \in {UpdateStep(4, g3)} :
  \E g5 \in {UpdateStep(5, g4)} : \E g6 \in {UpdateStep(6, g5)} :
  \E g7 \in {UpdateStep(7, g6)} :
    /\ game' = g7
    /\ UNCHANGED <<lock, pc, ustep, delta, ticks, total, event, ball_pos,
                   player1_pos, player2_pos, held>>

\* the same runs when the main loop keeps calling update(): the loop of
\* main never ends and calls update() whenever a frame time has passed
SpecGameFair == SpecGame /\ WF_vars(TickStaged)

\* ------------------------------------------------------ main's loop
\* line 341: delta > FRAME_TIME
TickDue(d) == d > FRAME_TIME

\* the accumulator set back to zero after a tick
AfterTickReset(d) == 0

\* line 343: delta -= FRAME_TIME
AfterTick(d) == d - FRAME_TIME

\* lines 338-341 and 347: now, delta += now - last_update (d is the time since
\* the previous reading, which last_update = now keeps), the test
DriverMeasure ==
  /\ pc["main"] = "loop"
  /\ \E d \in Elapsed :
       /\ delta + d <= MaxDelta
       /\ TickDue(delta + d) => ticks < MaxTicks
       /\ delta' = delta + d
       /\ total' = total + d
       /\ pc' = [pc EXCEPT !["main"] = IF TickDue(delta + d) THEN "write" ELSE "sleep"]
  /\ UNCHANGED <<game, lock, ustep, ticks, event, ball_pos, player1_pos,
                 player2_pos, held>>

\* line 342: game.write().unwrap()
DriverAcquire ==
  /\ pc["main"] = "write"
  /\ CanWrite(lock)
  /\ lock' = AcquireWrite(lock, "main")
  /\ pc' = [pc EXCEPT !["main"] = "update"]
  /\ ustep' = 1
  /\ UNCHANGED <<game, delta, ticks, total, event, ball_pos, player1_pos,
                 player2_pos, held>>

\* line 342: one statement of update(); after the last one the guard is
\* dropped; line 343: delta -= FRAME_TIME
DriverUpdate ==
  /\ pc["main"] = "update"
  /\ game' = UpdateStep(ustep, game)
  /\ IF ustep < NumUpdateSteps
       THEN /\ ustep' = ustep + 1
            /\ UNCHANGED <<lock, pc, delta, ticks, total>>
       ELSE /\ ustep' = 0
            /\ lock' = ReleaseWrite(lock, "main")
            /\ delta' = AfterTick(delta)
            /\ ticks' = ticks + 1
            /\ total' = total
            /\ pc' = [pc EXCEPT !["main"] = "loop"]
  /\ UNCHANGED <<event, ball_pos, player1_pos, player2_pos, held>>

\* line 345: sleep(FRAME_TIME / 2)
DriverSleep ==
  /\ pc["main"] = "sleep"
  /\ pc' = [pc EXCEPT !["main"] = "loop"]
  /\ UNCHANGED <<game, lock, ustep, delta, ticks, total, event, ball_pos,
                 player1_pos, player2_pos, held>>

\* ------------------------------------------------------ draw_ball
\* line 226: TcpStream::connect(server)?
BallConnect ==
  /\ pc["ball"] = "connect"
  /\ \E ok \in BOOLEAN :
       pc' = IF ok THEN [pc EXCEPT !["ball"] = "read"] ELSE OnError(pc, "ball")
  /\ UNCHANGED <<game, lock, ustep, delta, ticks, total, event, ball_pos,
                 player1_pos, player2_pos, held>>

\* line 231: game.read().unwrap()
BallRead ==
  /\ pc["ball"] = "read"
  /\ CanRead(lock)
  /\ lock' = AcquireRead(lock, "ball")
  /\ pc' = [pc EXCEPT !["ball"] = "copy"]
  /\ UNCHANGED <<game, ustep, delta, ticks, total, event, ball_pos, player1_pos,
                 player2_pos, held>>

\* lines 232-233: let ball_pos = game.ball; drop(game)
BallCopy ==
  /\ pc["ball"] = "copy"
  /\ ball_pos' = game.ball
  /\ lock' = ReleaseRead(lock, "ball")
  /\ pc' = [pc EXCEPT !["ball"] = "write"]
  /\ UNCHANGED <<game, ustep, delta, ticks, total, event, player1_pos,
                 player2_pos, held>>

\* line 252: client.write_pixel(..)? inside the two for loops; the number of
\* pixels still to write is not tracked: the call is the last one of the
\* iteration ("done"), not the last one ("more"), or it fails ("fail")
BallWritePixel ==
  /\ pc["ball"] = "write"
  /\ \E r \in {"more", "done", "fail"} :
       /\ pc' = CASE r = "more" -> pc
                  [] r = "done" -> [pc EXCEPT !["ball"] = "read"]
                  [] r = "fail" -> OnError(pc, "ball")
       /\ ball_pos' = IF r = "more" THEN ball_pos ELSE NoPos
  /\ UNCHANGED <<game, lock, ustep, delta, ticks, total, event, player1_pos,
                 player2_pos, held>>

\* ------------------------------------------------------ draw_players
\* line 258: TcpStream::connect(server)?
PlayersConnect ==
  /\ pc["players"] = "connect"
  /\ \E ok \in BOOLEAN :
       pc' = IF ok THEN [pc EXCEPT !["players"] = "size"] ELSE OnError(pc, "players")
  /\ UNCHANGED <<game, lock, ustep, delta, ticks, total, event, ball_pos,
                 player1_pos, player2_pos, held>>

\* lines 262-263: paddle_height from game.read().unwrap().size.y; the guard
\* lives for this statement only
PlayersSize ==
  /\ pc["players"] = "size"
  /\ CanRead(lock)
  /\ pc' = [pc EXCEPT !["players"] = "read"]
  /\ UNCHANGED <<game, lock, ustep, delta, ticks, total, event, ball_pos,
                 player1_pos, player2_pos, held>>

\* line 266: game.read().unwrap()
PlayersRead ==
  /\ pc["players"] = "read"
  /\ CanRead(lock)
  /\ lock' = AcquireRead(lock, "players")
  /\ pc' = [pc EXCEPT !["players"] = "copy1"]
  /\ UNCHANGED <<game, ustep, delta, ticks, total, event, ball_pos, player1_pos,
                 player2_pos, held>>

\* line 267: let player1_pos = game.player1
PlayersCopy1 ==
  /\ pc["players"] = "copy1"
  /\ player1_pos' = game.player1
  /\ pc' = [pc EXCEPT !["players"] = "copy2"]
  /\ UNCHANGED <<game, lock, ustep, delta, ticks, total, event, ball_pos,
                 player2_pos, held>>

\* lines 268-269: let player2_pos = game.player2; drop(game)
PlayersCopy2 ==
  /\ pc["players"] = "copy2"
  /\ player2_pos' = game.player2
  /\ lock' = ReleaseRead(lock, "players")
  /\ pc' = [pc EXCEPT !["players"] = "write"]
  /\ UNCHANGED <<game, ustep, delta, ticks, total, event, ball_pos, player1_pos,
                 held>>

\* lines 286-287: the two client.write_pixel(..)? inside the two for loops
PlayersWritePixel ==
  /\ pc["players"] = "write"
  /\ \E r \in {"more", "done", "fail"} :
       /\ pc' = CASE r = "more" -> pc
                  [] r = "done" -> [pc EXCEPT !["players"] = "read"]
                  [] r = "fail" -> OnError(pc, "players")
       /\ player1_pos' = IF r = "more" THEN player1_pos ELSE NoPos
       /\ player2_pos' = IF r = "more" THEN player2_pos ELSE NoPos
  /\ UNCHANGED <<game, lock, ustep, delta, ticks, total, event, ball_pos, held>>

\* ------------------------------------------------------ handle_user_input
\* line 294: input::Interface::new(), whose udev_assign_seat(..).unwrap()
\* (input.rs line 59) panics on failure
InputNew ==
  /\ pc["input"] = "new"
  /\ \E ok \in BOOLEAN :
       pc' = [pc EXCEPT !["input"] = IF ok THEN "dispatch" ELSE "dead"]
  /\ UNCHANGED <<game, lock, ustep, delta, ticks, total, event, ball_pos,
                 player1_pos, player2_pos, held>>

\* line 296: input.dispatch().unwrap(): Err panics the thread
InputDispatch ==
  /\ pc["input"] = "dispatch"
  /\ \E ok \in BOOLEAN :
       pc' = [pc EXCEPT !["input"] = IF ok THEN "events" ELSE "dead"]
  /\ UNCHANGED <<game, lock, ustep, delta, ticks, total, event, ball_pos,
                 player1_pos, player2_pos, held>>

\* lines 297-304: the iterator over the dispatched events either is
\* exhausted or yields a keyboard event; Key::try_from decides whether the
\* event is handled
InputNextEvent ==
  /\ pc["input"] = "events"
  /\ \/ /\ pc' = [pc EXCEPT !["input"] = "dispatch"]
        /\ UNCHANGED event
     \/ \E ev \in EventSet :
          IF TryFrom(ev.code) = "Err"
            THEN UNCHANGED <<pc, event>>
            ELSE /\ event' = ev
                 /\ pc' = [pc EXCEPT !["input"] = "write"]
  /\ UNCHANGED <<game, lock, ustep, delta, ticks, total, ball_pos, player1_pos,
                 player2_pos, held>>

\* line 305: game.write().unwrap()
InputAcquire ==
  /\ pc["input"] = "write"
  /\ CanWrite(lock)
  /\ lock' = AcquireWrite(lock, "input")
  /\ pc' = [pc EXCEPT !["input"] = "handle"]
  /\ UNCHANGED <<game, ustep, delta, ticks, total, event, ball_pos, player1_pos,
                 player2_pos, held>>

\* line 305: .handle_press(key, state); the guard is dropped at the end of
\* the statement
InputHandle ==
  /\ pc["input"] = "handle"
  /\ LET key == TryFrom(event.code)
     IN /\ game' = HandlePress(game, key, event.state)
        /\ held' = HeldAfter(held, key, event.state)
  /\ lock' = ReleaseWrite(lock, "input")
  /\ event' = NoEvent
  /\ pc' = [pc EXCEPT !["input"] = "events"]
  /\ UNCHANGED <<ustep, delta, ticks, total, ball_pos, player1_pos, player2_pos>>

\* ------------------------------------------------------ the supervisors
\* main, lines 325-333: `loop { let _ = f(..); }` calls f again once it has
\* returned; a thread that panicked has left its loop
Restart ==
  /\ \E t \in {"ball", "players", "input"} :
       /\ pc[t] = "err"
       /\ pc' = [pc EXCEPT ![t] = IF t = "input" THEN "new" ELSE "connect"]
  /\ UNCHANGED <<game, lock, ustep, delta, ticks, total, event, ball_pos,
                 player1_pos, player2_pos, held>>

Next ==
  \/ DriverMeasure \/ DriverAcquire \/ DriverUpdate \/ DriverSleep
  \/ BallConnect \/ BallRead \/ BallCopy \/ BallWritePixel
  \/ PlayersConnect \/ PlayersSize \/ PlayersRead \/ PlayersCopy1
  \/ PlayersCopy2 \/ PlayersWritePixel
  \/ InputNew \/ InputDispatch \/ InputNextEvent \/ InputAcquire \/ InputHandle
  \/ Restart

Spec == Init /\ [][Next]_vars

\* ------------------------------------------------------ main's startup
\* the world before GameState::new has run
NoGame == [constructed |-> FALSE]

StartupPcs == {"args", "connect0", "size0"}

\* a startup that has spawned the loops before it finds the error
ExitAfterSpawn(p) ==
  [t \in Threads |->
     CASE t = "main" -> "exited"
       [] t = "input" -> "new"
       [] OTHER -> "connect"]

\* the `?` of lines 314-316: main returns the Err and the process ends
ExitProcess(p) == [p EXCEPT !["main"] = "exited"]

InitMain ==
  /\ game = NoGame
  /\ lock = [writer |-> "none", readers |-> {}]
  /\ pc = [t \in Threads |-> IF t = "main" THEN "args" ELSE "unspawned"]
  /\ ustep = 0
  /\ delta = 0
  /\ ticks = 0
  /\ total = 0
  /\ event = NoEvent
  /\ ball_pos = NoPos
  /\ player1_pos = NoPos
  /\ player2_pos = NoPos
  /\ held = {}

\* lines 312-314: the address argument, or the usage error
StartArgs ==
  /\ pc["main"] = "args"
  /\ \E ok \in BOOLEAN :
       pc' = IF ok THEN [pc EXCEPT !["main"] = "connect0"] ELSE ExitProcess(pc)
  /\ UNCHANGED <<game, lock, ustep, delta, ticks, total, event, ball_pos,
                 player1_pos, player2_pos, held>>

\* line 315: TcpStream::connect(&server)?
StartConnect ==
  /\ pc["main"] = "connect0"
  /\ \E ok \in BOOLEAN :
       pc' = IF ok THEN [pc EXCEPT !["main"] = "size0"] ELSE ExitProcess(pc)
  /\ UNCHANGED <<game, lock, ustep, delta, ticks, total, event, ball_pos,
                 player1_pos, player2_pos, held>>

\* line 316: read_screen_size()?; on Ok lines 317-336: GameState::new, the
\* three thread::spawn calls, and main enters its loop
StartSize ==
  /\ pc["main"] = "size0"
  /\ \/ \E size \in Sizes :
          /\ game' = GameNew(size)
          /\ pc' = [t \in Threads |->
                      CASE t = "main" -> "loop"
                        [] t = "input" -> "new"
                        [] OTHER -> "connect"]
     \/ /\ pc' = ExitProcess(pc)
        /\ UNCHANGED game
  /\ UNCHANGED <<lock, ustep, delta, ticks, total, event, ball_pos,
                 player1_pos, player2_pos, held>>

NextMain == StartArgs \/ StartConnect \/ StartSize \/ Next

SpecMain == InitMain /\ [][NextMain]_vars

\* ==================================================================== C1
PaddleInBounds(g, p) == p[2] >= 0 /\ p[2] <= g.size[2] - g.paddle_height

\* C1: in every state reachable from GameState::new by update() calls and
\* key events, both paddles' y positions lie in [0, size.y - paddle_height].
C1_PaddlesInBounds ==
  /\ PaddleInBounds(game, game.player1)
  /\ PaddleInBounds(game, game.player2)

\* a paddle that update() has pushed against the lower bound while the other
\* one was pushed against the upper bound
C1_Witness ==
  /\ game.player1_dir = "Down"
  /\ game.player1[2] = game.size[2] - game.paddle_height
  /\ game.player2_dir = "Up"
  /\ game.player2[2] = 0

\* ==================================================================== C2
\* the intent that belongs to a set of held keys of one control pair
IntentOfHeld(h, up, down) ==
  CASE up \in h /\ down \in h -> "Both"
    [] up \in h /\ down \notin h -> "Up"
    [] up \notin h /\ down \in h -> "Down"
    [] OTHER -> "Neutral"

\* C2: after any sequence of press/release events each paddle's intent is
\* the one that belongs to the set of currently held keys of its control
\* pair, whatever the order in which they were pressed.
C2_IntentIsHeldSet ==
  /\ game.player1_dir = IntentOfHeld(held, "W", "S")
  /\ game.player2_dir = IntentOfHeld(held, "Up", "Down")

\* one key of a pair was released while the other one stayed held, on both
\* pairs
C2_Witness ==
  /\ held = {"S", "Up"}
  /\ game.player1_dir = "Down"
  /\ game.player2_dir = "Up"
  /\ game.player1[2] > game.player2[2]

\* ==================================================================== C3
\* the transition table of spec section 4.1
IntentTable ==
  [ press_up     |-> [Neutral |-> "Up", Up |-> "Up", Down |-> "Both", Both |-> "Both"],
    press_down   |-> [Neutral |-> "Down", Down |-> "Down", Up |-> "Both", Both |-> "Both"],
    release_up   |-> [Neutral |-> "Neutral", Up |-> "Neutral", Down |-> "Down", Both |-> "Down"],
    release_down |-> [Neutral |-> "Neutral", Down |-> "Neutral", Up |-> "Up", Both |-> "Up"] ]

\* the table row a key and a key state select
EventRow(up, key, state) ==
  IF state = "Pressed"
    THEN IF key = up THEN "press_up" ELSE "press_down"
    ELSE IF key = up THEN "release_up" ELSE "release_down"

\* C3: in every reachable state and for every key event, handle_press maps
\* the intent of the key's player as the table says (W/S: player 1, Up/Down:
\* player 2), yields one of the four intents, and leaves the other player's
\* intent as it was.
C3_TransitionTable ==
  \A key \in DirKeys \cup {"Space"}, state \in KeyStates :
    LET g2 == HandlePress(game, key, state)
    IN /\ g2.player1_dir \in PlayerDir
       /\ g2.player2_dir \in PlayerDir
       /\ g2.player1_dir =
            IF key \in {"W", "S"}
              THEN IntentTable[EventRow("W", key, state)][game.player1_dir]
              ELSE game.player1_dir
       /\ g2.player2_dir =
            IF key \in {"Up", "Down"}
              THEN IntentTable[EventRow("Up", key, state)][game.player2_dir]
              ELSE game.player2_dir

\* handle_press has brought player 1 to Both and player 2 to Down
C3_Witness ==
  /\ game.player1_dir = "Both"
  /\ game.player2_dir = "Down"
  /\ held = {"W", "S", "Down"}

\* ==================================================================== C4
\* this step is handle_press(key, state) for a recognized key
IsHandlePress(key, state) ==
  /\ game' = HandlePress(game, key, state)
  /\ held' = HeldAfter(held, key, state)

\* the ball's x after the translation of an update() call on g
XAfterMove(g) == MoveBall(g).ball[1]

\* this step is an update() call in which a score occurs
IsScoringTick ==
  /\ game' = Update(game)
  /\ held' = held
  /\ (XAfterMove(game) > game.size[1] \/ XAfterMove(game) < 0)

\* C4: ball_is_moving is false after construction; a step sets it to true
\* only if it is a press of a recognized key, and every such press leaves it
\* true; a release never changes it; a step sets it to false only if it is
\* an update() call in which a score occurs.
C4_BallMovingCycle ==
  /\ game.ball_is_moving = FALSE
  /\ [][ /\ (~game.ball_is_moving /\ game'.ball_is_moving)
              => \E key \in DirKeys \cup {"Space"} : IsHandlePress(key, "Pressed")
         /\ \A key \in DirKeys \cup {"Space"} :
              /\ IsHandlePress(key, "Pressed") => game'.ball_is_moving
              /\ IsHandlePress(key, "Released")
                   => game'.ball_is_moving = game.ball_is_moving
         /\ (game.ball_is_moving /\ ~game'.ball_is_moving) => IsScoringTick
     ]_vars

\* the ball was started by a press, has scored, and waits for the next press
\* with a key still held
C4_Witness ==
  /\ ~game.ball_is_moving
  /\ game.ball # <<game.size[1] \div 2, game.size[2] \div 2>>
  /\ held # {}

\* ==================================================================== C5
\* C5: an update() call on a state with ball_is_moving = false leaves the
\* ball's position as it was.
C5_StoppedBallStays ==
  [][ (~game.ball_is_moving /\ game' = Update(game)) => game'.ball = game.ball ]_vars

\* the ball is stopped away from the centre while update() calls have moved
\* a paddle to the upper bound
C5_Witness ==
  /\ ~game.ball_is_moving
  /\ game.ball_angle = PI
  /\ game.player1_dir = "Up"
  /\ game.player1[2] = 0
  /\ game.ball[1] > game.size[1] \div 2

\* ==================================================================== C6
RightReset(g) == <<(g.size[1] \div 2) + (g.size[1] \div 3), g.size[2] \div 2>>
LeftReset(g) == <<(g.size[1] \div 2) - (g.size[1] \div 3), g.size[2] \div 2>>

\* an 800x600 playfield with the ball about to leave on the right
Game800 ==
  [GameNew(<<800, 600>>) EXCEPT !.ball = <<790, 300>>, !.ball_is_moving = TRUE]

\* C6: an update() call that takes the ball's x beyond size.x ends with the
\* ball stopped at (size.x/2 + size.x/3, size.y/2) and angle PI; one that
\* takes it below 0 ends with the ball stopped at (size.x/2 - size.x/3,
\* size.y/2) and angle 0; on 800x600 a right exit puts the ball at (666, 300).
C6_ScoreResets ==
  /\ Update(Game800).ball = <<666, 300>>
  /\ Update(Game800).ball_angle = PI
  /\ ~Update(Game800).ball_is_moving
  /\ [][ game' = Update(game) =>
           /\ XAfterMove(game) > game.size[1] =>
                /\ ~game'.ball_is_moving
                /\ game'.ball = RightReset(game)
                /\ game'.ball_angle = PI
           /\ XAfterMove(game) < 0 =>
                /\ ~game'.ball_is_moving
                /\ game'.ball = LeftReset(game)
                /\ game'.ball_angle = 0
     ]_vars

\* player 2 has just scored: the ball is stopped left of the centre, heading
\* right
C6_Witness ==
  /\ ~game.ball_is_moving
  /\ game.ball = LeftReset(game)
  /\ game.ball_angle = 0
  /\ game.ball[1] < game.size[1] \div 2

\* ==================================================================== C7
\* a write operation (update() or handle_press()) has begun and not ended
WriteInProgress == pc["main"] = "update" \/ pc["input"] = "handle"

Streamers == {"ball", "players"}

\* C7: a streamer copies its fields only while it holds the read lock and no
\* write operation is in progress, so a snapshot is the world state between
\* whole write operations: both paddle positions are copied from the same
\* such state, and no copied paddle position is out of the clamp range.
C7_SnapshotAtBoundary ==
  /\ [](/\ \A t \in Streamers : t \in lock.readers => ~WriteInProgress
        /\ pc["ball"] = "copy" => "ball" \in lock.readers
        /\ pc["players"] \in {"copy1", "copy2"} => "players" \in lock.readers
        /\ pc["players"] = "copy2" => player1_pos = game.player1
        /\ player1_pos # NoPos => PaddleInBounds(game, player1_pos)
        /\ player2_pos # NoPos => PaddleInBounds(game, player2_pos))
  /\ [][ /\ (pc["players"] = "copy2" /\ pc'["players"] = "write")
              => /\ player1_pos' = game.player1
                 /\ player2_pos' = game.player2
                 /\ ~WriteInProgress
         /\ (pc["ball"] = "copy" /\ pc'["ball"] = "write")
              => ball_pos' = game.ball /\ ~WriteInProgress
     ]_vars

\* the driver is inside update() with paddle 1 moved and not yet clamped
\* while the paddle streamer waits for the read lock and the ball streamer
\* draws an earlier snapshot
C7_Witness ==
  /\ pc["main"] = "update"
  /\ ~PaddleInBounds(game, game.player1)
  /\ pc["players"] = "read"
  /\ pc["ball"] = "write"
  /\ ball_pos # NoPos

\* ==================================================================== C8
\* thread t holds the lock
Holds(t) == t \in lock.readers \/ lock.writer = t

\* C8: no thread holds the lock while it connects, writes a pixel, waits for
\* device events or sleeps; so when both streamers are in a network
\* operation and the input thread is not inside its handle_press statement,
\* nothing keeps the driver from the write lock.
C8_NoLockAcrossBlocking ==
  /\ \A t \in Streamers : pc[t] \in {"connect", "write", "err"} => ~Holds(t)
  /\ pc["input"] \in {"new", "dispatch", "events", "dead"} => ~Holds("input")
  /\ pc["main"] \in {"loop", "sleep"} => ~Holds("main")
  /\ ( /\ \A t \in Streamers : pc[t] \in {"connect", "write"}
       /\ pc["input"] \notin {"handle"}
       /\ pc["main"] = "write" )
     => CanWrite(lock)

\* both streamers are writing pixels of earlier snapshots while the driver
\* holds the write lock inside update()
C8_Witness ==
  /\ pc["ball"] = "write"
  /\ pc["players"] = "write"
  /\ player2_pos # NoPos
  /\ pc["main"] = "update"
  /\ lock.writer = "main"
  /\ pc["input"] = "dispatch"

\* ==================================================================== C9
Background == {"ball", "players", "input"}

\* C9: no failure ends a background loop: none of the three background
\* threads is ever past its supervising loop.
C9_NoLoopEnds == \A t \in Background : pc[t] # "dead"

\* ==================================================================== C10
\* this step is a failed connect or a failed write_pixel of streamer t
StreamerFails(t) ==
  /\ pc[t] \in {"connect", "write"}
  /\ pc'[t] \notin {"connect", "write", "size", "read"}

\* C10: a step in which a streamer's connect or write_pixel fails leaves the
\* world state and the lock as they were, with the lock not held by that
\* streamer, and leaves every other thread where it was, with its local
\* state; the failed streamer is back in its supervising loop.
C10_StreamerFailureIsolated ==
  [][ \A t \in Streamers :
        StreamerFails(t) =>
          /\ game' = game
          /\ lock' = lock
          /\ ~(t \in lock'.readers \/ lock'.writer = t)
          /\ pc'[t] = "err"
          /\ \A u \in Threads \ {t} : pc'[u] = pc[u]
          /\ UNCHANGED <<ustep, delta, ticks, total, event, held>>
          /\ t = "ball" => UNCHANGED <<player1_pos, player2_pos>>
          /\ t = "players" => UNCHANGED ball_pos
    ]_vars

\* the ball streamer has failed while the driver is inside update(), the
\* paddle streamer draws and the input thread waits for the write lock
C10_Witness ==
  /\ pc["ball"] = "err"
  /\ pc["players"] = "write"
  /\ pc["main"] = "update"
  /\ pc["input"] = "write"

\* ==================================================================== C11
\* C11: the driver is on its way into update() only when the accumulated
\* time strictly exceeds FRAME_TIME and sleeps only when it does not; the
\* accumulator is never negative; and the accumulator plus FRAME_TIME for
\* every completed update() equals the time measured so far, so a tick takes
\* exactly one FRAME_TIME from the accumulator and keeps the surplus.
C11_FixedTimestep ==
  /\ delta >= 0
  /\ total = delta + ticks * FRAME_TIME
  /\ pc["main"] \in {"write", "update"} => delta > FRAME_TIME
  /\ pc["main"] = "sleep" => delta <= FRAME_TIME
  /\ pc["main"] = "update" <=> ustep # 0

\* a tick has been executed from an accumulator of two FRAME_TIMEs and has
\* left one FRAME_TIME of surplus
C11_Witness ==
  /\ ticks = 1
  /\ delta = FRAME_TIME
  /\ total = 2 * FRAME_TIME
  /\ pc["main"] = "loop"

\* ==================================================================== C12
\* the state of an update() call on g when it reaches the collision tests
BeforeCollide(g) == WallBounce(MoveBall(ClampPaddles(MovePaddles(g))))

Hit1(g) == InPaddle(g, g.player1) /\ CosSpeed(g.ball_angle) < 0
Hit2(g) == InPaddle(g, g.player2) /\ CosSpeed(g.ball_angle) > 0

\* g with the ball at height y
AtHeight(g, y) == [g EXCEPT !.ball = <<@[1], y>>]

\* the heights strictly inside the vertical extent of the paddle at p
InsideHeights(g, p) == (p[2] + 1)..(p[2] + g.paddle_height - 1)

\* C12: in every update() call that detects a collision, paddle_height / 2
\* is not zero, the impact offset from the paddle's centre is within
\* [-paddle_height/2, paddle_height/2], the new angle is within
\* MAX_REFLECT_ANGLE of 0 (paddle 1) or of -PI (paddle 2) and is monotonic in
\* the impact height, and the ball travels rightward after a paddle-1
\* collision and leftward after a paddle-2 collision.
C12_ReflectionBounded ==
  LET g4 == BeforeCollide(game)
      g5 == Collide1(g4)
      g6 == Collide2(g5)
      half == game.paddle_height \div 2
  IN /\ Hit1(g4) =>
          /\ half # 0
          /\ (g4.ball[2] - g4.player1[2]) - half \in (-half)..half
          /\ g5.ball_angle * half = MAX_REFLECT_ANGLE * ((g4.ball[2] - g4.player1[2]) - half)
          /\ g5.ball_angle \in (-MAX_REFLECT_ANGLE)..MAX_REFLECT_ANGLE
          /\ CosSpeed(g5.ball_angle) > 0
          /\ \A y1, y2 \in InsideHeights(g4, g4.player1) :
               y1 <= y2 => Collide1(AtHeight(g4, y1)).ball_angle
                             <= Collide1(AtHeight(g4, y2)).ball_angle
     /\ Hit2(g5) =>
          /\ half # 0
          /\ half - (g5.ball[2] - g5.player2[2]) \in (-half)..half
          /\ (g6.ball_angle + PI) * half = MAX_REFLECT_ANGLE * (half - (g5.ball[2] - g5.player2[2]))
          /\ g6.ball_angle + PI \in (-MAX_REFLECT_ANGLE)..MAX_REFLECT_ANGLE
          /\ CosSpeed(g6.ball_angle) < 0
          /\ \A y1, y2 \in InsideHeights(g5, g5.player2) :
               y1 <= y2 => Collide2(AtHeight(g5, y1)).ball_angle
                             >= Collide2(AtHeight(g5, y2)).ball_angle

\* the ball has just been reflected by paddle 1 at the largest offset
C12_Witness ==
  /\ game.ball_is_moving
  /\ game.ball_angle = MAX_REFLECT_ANGLE
  /\ InPaddle(game, game.player1)
  /\ game.ball[2] = game.player1[2] + game.paddle_height - 1

\* ==================================================================== C13
\* the state of an update() call on g when it reaches the wall test
BeforeBounce(g) == MoveBall(ClampPaddles(MovePaddles(g)))

OutOfHeight(g) == g.ball[2] < 0 \/ g.ball[2] > g.size[2]

\* C13: the ball's y is within [0, size.y] in every state between update()
\* calls; an update() call whose translation takes y outside reflects the
\* angle to 2 PI - angle, which reverses the vertical and keeps the
\* horizontal direction, puts y on the bound it crossed, and detects no
\* paddle collision; unless the same call scores, it ends with that angle
\* and that y.
C13_WallBounce ==
  /\ [](game.ball[2] >= 0 /\ game.ball[2] <= game.size[2])
  /\ [][ LET g3 == BeforeBounce(game)
             g4 == WallBounce(g3)
         IN (game' = Update(game) /\ OutOfHeight(g3)) =>
              /\ g4.ball_angle = (2 * PI) - g3.ball_angle
              /\ SinSpeed(g3.ball_angle) # 0
              /\ SinSpeed(g4.ball_angle) = -SinSpeed(g3.ball_angle)
              /\ CosSpeed(g4.ball_angle) = CosSpeed(g3.ball_angle)
              /\ g4.ball[1] = g3.ball[1]
              /\ g4.ball[2] = IF g3.ball[2] < 0 THEN 0 ELSE game.size[2]
              /\ ~Hit1(g4) /\ ~Hit2(g4)
              /\ game'.ball_is_moving =>
                   /\ game'.ball_angle = (2 * PI) - game.ball_angle
                   /\ game'.ball = g4.ball
     ]_vars

\* the ball has bounced off the upper wall and travels downward
C13_Witness ==
  /\ game.ball_is_moving
  /\ game.ball[2] = 0
  /\ SinSpeed(game.ball_angle) > 0
  /\ game.ball_angle > PI

\* ==================================================================== C14
\* the fields update() computes, and the fields handle_press() resolves
PhysicsFields(g) == <<g.player1, g.player2, g.ball, g.ball_angle>>
IntentFields(g) == <<g.player1_dir, g.player2_dir>>

\* C14: a step changes a paddle position, the ball position or the ball
\* angle only if it is a statement of update() run by main under the write
\* lock, and such a step leaves both intents as they were; a step changes an
\* intent only if it is the input thread's handle_press() under the write
\* lock, and such a step leaves positions and angle as they were; no step of
\* a streamer changes the world; no step changes size or paddle_height.
C14_WriteOwnership ==
  [][ /\ PhysicsFields(game') # PhysicsFields(game)
           => pc["main"] = "update" /\ lock.writer = "main"
      /\ pc["main"] = "update" => IntentFields(game') = IntentFields(game)
      /\ IntentFields(game') # IntentFields(game)
           => pc["input"] = "handle" /\ lock.writer = "input"
      /\ pc["input"] = "handle" => PhysicsFields(game') = PhysicsFields(game)
      /\ \A t \in Streamers : pc'[t] # pc[t] => game' = game
      /\ ball_pos' # ball_pos \/ player1_pos' # player1_pos \/ player2_pos' # player2_pos
           => game' = game
      /\ game'.size = game.size
      /\ game'.paddle_height = game.paddle_height
    ]_vars

\* update() has moved paddle 2 by its intent, which is still the one the
\* input thread set, and the paddle streamer draws the new position
C14_Witness ==
  /\ ticks = 1
  /\ game.player2_dir = "Down"
  /\ game.player2 # GameNew(game.size).player2
  /\ pc["players"] = "write"
  /\ player2_pos = game.player2

\* ==================================================================== C15
\* C15: in every reachable state, a keyboard event with a code outside the
\* five mapped ones leaves the world as it is, a Space press changes only
\* ball_is_moving, to true, a Space release changes nothing, and an event of
\* one player's direction keys leaves the other player's intent as it is.
C15_EventFrame ==
  \A ev \in EventSet :
    LET g2 == HandleEvent(game, ev)
    IN /\ ev.code \notin {CodeW, CodeS, CodeUP, CodeDOWN, CodeSPACE} => g2 = game
       /\ (ev.code = CodeSPACE /\ ev.state = "Pressed")
            => g2 = [game EXCEPT !.ball_is_moving = TRUE]
       /\ (ev.code = CodeSPACE /\ ev.state = "Released") => g2 = game
       /\ ev.code \in {CodeW, CodeS} => g2.player2_dir = game.player2_dir
       /\ ev.code \in {CodeUP, CodeDOWN} => g2.player1_dir = game.player1_dir

\* the ball has been started and has left the centre while no direction key
\* is held and no paddle has moved
C15_Witness ==
  /\ game.ball_is_moving
  /\ game.ball # GameNew(game.size).ball
  /\ held = {}
  /\ game.player1 = GameNew(game.size).player1
  /\ game.player2 = GameNew(game.size).player2

\* ==================================================================== C16
\* C16: while main is in its startup, and after a startup error has ended
\* it, the world is not constructed, no background thread is spawned and no
\* tick has run; a spawned thread implies a constructed world and a main
\* that is past its startup; after a startup error nothing happens any more.
C16_StartupErrorStopsAll ==
  /\ []( /\ pc["main"] \in StartupPcs \cup {"exited"} =>
              /\ game = NoGame
              /\ \A t \in Background : pc[t] = "unspawned"
              /\ ticks = 0 /\ ustep = 0
              /\ lock = [writer |-> "none", readers |-> {}]
         /\ (\E t \in Background : pc[t] # "unspawned") =>
              /\ game # NoGame
              /\ pc["main"] \in {"loop", "write", "update", "sleep"} )
  /\ [][ pc["main"] = "exited" => UNCHANGED vars ]_vars

\* main has ended on a startup error
C16_Witness ==
  /\ pc["main"] = "exited"
  /\ game = NoGame
  /\ \A t \in Background : pc[t] = "unspawned"

\* ==================================================================== C17
\* the paddle movement of spec section 4.2, step 1
IntentShift ==
  [Up |-> -PADDLE_SPEED, Down |-> PADDLE_SPEED, Neutral |-> 0, Both |-> 0]

\* where a paddle at p with intent dir is after one tick
PaddleAfterTick(g, p, dir) ==
  <<p[1], Clamp(p[2] + IntentShift[dir], 0, g.size[2] - g.paddle_height)>>

\* C17: an update() call leaves each paddle's x as it is and changes its y by
\* -PADDLE_SPEED for Up, +PADDLE_SPEED for Down and 0 for Neutral and Both,
\* clamped into [0, size.y - paddle_height], each paddle by its own intent.
C17_PaddleMovement ==
  [][ game' = Update(game) =>
        /\ game'.player1 = PaddleAfterTick(game, game.player1, game.player1_dir)
        /\ game'.player2 = PaddleAfterTick(game, game.player2, game.player2_dir)
        /\ game'.player1[1] = GameNew(game.size).player1[1]
        /\ game'.player2[1] = GameNew(game.size).player2[1]
    ]_vars

\* paddle 1 has moved down by PADDLE_SPEED from the upper bound without
\* reaching the lower one, while paddle 2 with both keys held has stayed
C17_Witness ==
  /\ game.player1_dir = "Down"
  /\ game.player1[2] = PADDLE_SPEED
  /\ game.player1[2] < game.size[2] - game.paddle_height
  /\ game.player2_dir = "Both"
  /\ game.player2 = GameNew(game.size).player2

\* ==================================================================== C18
\* C18: in every state between update() calls, which are the states a
\* streamer can copy from, the ball is inside the playfield: its x is within
\* [0, size.x] and its y within [0, size.y].
C18_BallInsidePlayfield ==
  /\ game.ball[1] >= 0
  /\ game.ball[1] <= game.size[1]
  /\ game.ball[2] >= 0
  /\ game.ball[2] <= game.size[2]

\* the next update() call takes the moving ball past the left bound
C18_Witness ==
  /\ game.ball_is_moving
  /\ XAfterMove(game) < 0
  /\ Update(game).ball = LeftReset(game)

\* ==================================================================== C19
\* the ball of g is strictly inside the rectangle of the paddle at p
InsideRect(g, p) ==
  /\ p[1] < g.ball[1] /\ g.ball[1] < p[1] + PADDLE_WIDTH
  /\ p[2] < g.ball[2] /\ g.ball[2] < p[2] + g.paddle_height

\* the x-ranges of the two paddles do not overlap
PaddlesApart(g) == g.player1[1] + PADDLE_WIDTH <= g.player2[1]

\* an update() call on a moving ball: the horizontal step is at most
\* BALL_SPEED, which is less than PADDLE_WIDTH; a ball right of paddle 1 and
\* travelling left is not left of the paddle's x-range afterwards, and
\* likewise for paddle 2
NoJumpOver ==
  LET g4 == BeforeCollide(game)
      dx == CosSpeed(game.ball_angle)
  IN (game' = Update(game) /\ game.ball_is_moving) =>
       /\ dx >= -BALL_SPEED /\ dx <= BALL_SPEED /\ BALL_SPEED < PADDLE_WIDTH
       /\ g4.ball[1] = game.ball[1] + dx
       /\ (dx < 0 /\ game.ball[1] >= game.player1[1] + PADDLE_WIDTH)
            => g4.ball[1] > g4.player1[1]
       /\ (dx > 0 /\ game.ball[1] <= game.player2[1])
            => g4.ball[1] < g4.player2[1] + PADDLE_WIDTH

\* an update() call in which the ball enters the x-range of the paddle it
\* travels toward, with its y strictly inside the paddle's extent, ends with
\* the ball travelling away from that paddle
EnterReverses ==
  LET g4 == BeforeCollide(game)
      dx == CosSpeed(game.ball_angle)
  IN (game' = Update(game) /\ game.ball_is_moving) =>
       /\ ( /\ dx < 0
            /\ game.ball[1] >= game.player1[1] + PADDLE_WIDTH
            /\ InsideRect(g4, g4.player1) )
            => CosSpeed(game'.ball_angle) > 0
       /\ ( /\ dx > 0
            /\ game.ball[1] <= game.player2[1]
            /\ InsideRect(g4, g4.player2) )
            => CosSpeed(game'.ball_angle) < 0

\* C19 as stated: no update() call takes the ball over a paddle's x-range,
\* and every call in which the ball enters the x-range inside the paddle's
\* vertical extent reverses its horizontal direction.
C19_NoTunnel_Stated == [][NoJumpOver /\ EnterReverses]_vars

\* C19 (amended): no update() call takes the ball over a paddle's x-range;
\* on a playfield where the x-ranges of the two paddles do not overlap,
\* every call in which the ball enters the x-range inside the paddle's
\* vertical extent reverses its horizontal direction.
C19_NoTunnel == [][NoJumpOver /\ (PaddlesApart(game) => EnterReverses)]_vars

\* the next update() call brings the ball from the right of paddle 1 into
\* its rectangle, on a playfield with the paddles apart
C19_Witness ==
  /\ PaddlesApart(game)
  /\ game.ball_is_moving
  /\ CosSpeed(game.ball_angle) < 0
  /\ game.ball[1] >= game.player1[1] + PADDLE_WIDTH
  /\ InsideRect(BeforeCollide(game), BeforeCollide(game).player1)

\* ==================================================================== C20
\* the angles update() and GameState::new give the ball: 0, PI, the
\* reflection angles of the two paddles, and their reflections at a wall
ServeAngles == {0, PI}
Paddle1Angles == (-MAX_REFLECT_ANGLE)..MAX_REFLECT_ANGLE
Paddle2Angles == {a - PI : a \in Paddle1Angles}
WallReflected(A) == {(PI * 2) - a : a \in A}
MovingAngles ==
  LET A == ServeAngles \cup Paddle1Angles \cup Paddle2Angles
  IN A \cup WallReflected(A)

Abs(n) == IF n < 0 THEN -n ELSE n

GoingRight == game.ball_is_moving /\ CosSpeed(game.ball_angle) > 0
GoingLeft == game.ball_is_moving /\ CosSpeed(game.ball_angle) < 0

\* a moving ball has one of the angles above and a horizontal step of at
\* least 21
MovingAngleOK ==
  game.ball_is_moving =>
    /\ game.ball_angle \in MovingAngles
    /\ Abs(CosSpeed(game.ball_angle)) >= 21

\* update() moves a moving ball by its horizontal step, and a step that
\* leaves the ball moving in the other horizontal direction is an update()
\* call with a paddle collision
TurnsOnlyAtPaddle ==
  LET g4 == BeforeCollide(game)
  IN /\ (game' = Update(game) /\ game.ball_is_moving)
          => /\ g4.ball[1] = game.ball[1] + CosSpeed(game.ball_angle)
             /\ g4.ball[1] # game.ball[1]
     /\ ( /\ game.ball_is_moving
          /\ game'.ball_is_moving
          /\ (CosSpeed(game'.ball_angle) > 0) # (CosSpeed(game.ball_angle) > 0) )
          => /\ game' = Update(game)
             /\ Hit1(g4) \/ Hit2(Collide1(g4))

====
